---- MODULE Spec2Model ----
(***************************************************************************)
(* Model of the egui_gauge crate (src/src/lib.rs): the Gauge widget, its   *)
(* value-to-angle mapping, the layered paint pipeline and the tick-label   *)
(* loop of write_values_around_circle.                                     *)
(*                                                                         *)
(* Rust f64 arithmetic is modelled by a binary floating-point format with  *)
(* the IEEE-754 semantics the code relies on (round-to-nearest-even after  *)
(* every operation, gradual underflow, overflow to infinity, NaN, and the  *)
(* saturating `as i32` cast) but with a Prec-bit significand and exponents *)
(* -MinExpMag..MaxExp instead of 53 bits and -1074..971, so that every     *)
(* value fits the integers of the model checker.  A finite float is        *)
(* m * 2^e.                                                                *)
(* Signed zero is not distinguished (-0.0 is not among the inputs and the  *)
(* only divisor, max_value - min_value, is +0 when it is zero).            *)
(***************************************************************************)
EXTENDS Integers, Sequences, FiniteSets, TLC

VARIABLES value, min_value, max_value, size, text,
          pc, rect_visible, allocated, widget_info, shapes, tick_value,
          returned, calls

gauge == <<value, min_value, max_value, size, text>>
vars == <<value, min_value, max_value, size, text,
          pc, rect_visible, allocated, widget_info, shapes, tick_value,
          returned, calls>>

(***************************************************************************)
(* Bounds of the floating-point format and of the recorded draw list.      *)
(***************************************************************************)
Prec == 12
MinExpMag == 16
MaxExp == 20
MaxShapes == 24

MinExp == -MinExpMag

I32_MAX == 2147483647
I32_MIN == -2147483647 - 1

\* Operators below take their arguments by value: Bind evaluates the
\* argument tuple once and hands the body its components.
Bind(S) == CHOOSE r \in S : TRUE

Pow2(n) == IF n <= 0 THEN 1 ELSE 2^n

\* Number of bits of n >= 0.
RECURSIVE BitLen(_)
BitLen(n) ==
  IF n <= 0 THEN 0 ELSE 1 + Bind({ BitLen(h) : h \in { n \div 2 } })

Abs(n) == IF n < 0 THEN -n ELSE n
Sgn(n) == IF n < 0 THEN -1 ELSE IF n > 0 THEN 1 ELSE 0
Max2(a, b) == IF a >= b THEN a ELSE b
Min2(a, b) == IF a <= b THEN a ELSE b

(***************************************************************************)
(* Float values.                                                           *)
(***************************************************************************)
NaN == [c |-> "nan", m |-> 0, e |-> 0]
Inf(s) == [c |-> "inf", m |-> (IF s < 0 THEN -1 ELSE 1), e |-> 0]
Fin(m, e) == [c |-> "fin", m |-> m, e |-> e]
Zero == Fin(0, MinExp)

IsNaN(x) == x.c = "nan"
IsInf(x) == x.c = "inf"
IsFinite(x) == x.c = "fin"

\* Round the exact value s * (A + sticky-fraction) * 2^E, A >= 0, to the
\* nearest representable float, ties to even; sticky = 1 says that a
\* non-zero remainder below the last bit of A was dropped.

\* The rounded significand m at exponent e: a carry out of the significand
\* moves to the next exponent, and an exponent above MaxExp is an overflow.
Normalize(s, m, e) ==
  IF m = 0 THEN Zero
  ELSE IF m = Pow2(Prec)
       THEN (IF e + 1 > MaxExp THEN Inf(s) ELSE Fin(s * Pow2(Prec - 1), e + 1))
  ELSE IF e > MaxExp THEN Inf(s)
  ELSE Fin(s * m, e)

\* A has bl bits and is to be expressed at exponent Et.
RoundAt(s, A, E, sticky, bl, Et) ==
  IF Et <= E
  THEN (IF Et > MaxExp THEN Inf(s) ELSE Fin(s * A * Pow2(E - Et), Et))
  ELSE IF Et - E > bl + 1 THEN Zero
  ELSE
    LET q == A \div Pow2(Et - E)
        r == A % Pow2(Et - E)
        half == Pow2(Et - E - 1)
    IN IF r > half \/ (r = half /\ (sticky = 1 \/ q % 2 = 1))
       THEN Bind({ Normalize(t[1], t[2], t[3]) : t \in { <<s, q + 1, Et>> } })
       ELSE Bind({ Normalize(t[1], t[2], t[3]) : t \in { <<s, q, Et>> } })

RoundBits(s, A, E, sticky) ==
  IF A = 0 THEN Zero
  ELSE Bind({ RoundAt(s, A, E, sticky, bl, Max2(MinExp, E + bl - Prec)) :
              bl \in { BitLen(A) } })

Round(s, A, E, sticky) ==
  Bind({ RoundBits(t[1], t[2], t[3], t[4]) : t \in { <<s, A, E, sticky>> } })

\* The float nearest to n * 2^e (a literal or an integer converted by to_f64).
Flt(n, e) == Round(Sgn(n), Abs(n), e, 0)
FromInt(n) == Flt(n, 0)

NegF(x) == IF IsNaN(x) THEN NaN ELSE [x EXCEPT !.m = -x.m]

FNeg(x) == Bind({ NegF(t[1]) : t \in { <<x>> } })

\* Sign of the exact difference x - y of two finite floats.
CmpFin(x, y) ==
  IF x.e - y.e > Prec + 2 THEN Sgn(x.m)
  ELSE IF y.e - x.e > Prec + 2 THEN -Sgn(y.m)
  ELSE LET e0 == Min2(x.e, y.e)
       IN Sgn(x.m * Pow2(x.e - e0) - y.m * Pow2(y.e - e0))

\* Rust's == and < on f64: false whenever an operand is NaN.
EqF(x, y) ==
  IF IsNaN(x) \/ IsNaN(y) THEN FALSE
  ELSE IF IsInf(x) \/ IsInf(y) THEN IsInf(x) /\ IsInf(y) /\ x.m = y.m
  ELSE CmpFin(x, y) = 0

FEq(x, y) == Bind({ EqF(t[1], t[2]) : t \in { <<x, y>> } })

LtF(x, y) ==
  IF IsNaN(x) \/ IsNaN(y) THEN FALSE
  ELSE IF IsInf(x) THEN x.m < 0 /\ ~(IsInf(y) /\ y.m < 0)
  ELSE IF IsInf(y) THEN y.m > 0
  ELSE CmpFin(x, y) < 0

FLt(x, y) == Bind({ LtF(t[1], t[2]) : t \in { <<x, y>> } })

FLe(x, y) == FLt(x, y) \/ FEq(x, y)

AddF(x, y) ==
  IF IsNaN(x) \/ IsNaN(y) THEN NaN
  ELSE IF IsInf(x) THEN (IF IsInf(y) /\ y.m # x.m THEN NaN ELSE x)
  ELSE IF IsInf(y) THEN y
  ELSE IF x.m = 0 THEN y
  ELSE IF y.m = 0 THEN x
  ELSE IF x.e - y.e > Prec + 2 THEN x
  ELSE IF y.e - x.e > Prec + 2 THEN y
  ELSE LET e0 == Min2(x.e, y.e)
           sum == x.m * Pow2(x.e - e0) + y.m * Pow2(y.e - e0)
       IN Round(Sgn(sum), Abs(sum), e0, 0)

FAdd(x, y) == Bind({ AddF(t[1], t[2]) : t \in { <<x, y>> } })

FSub(x, y) == FAdd(x, FNeg(y))

MulF(x, y) ==
  IF IsNaN(x) \/ IsNaN(y) THEN NaN
  ELSE IF IsInf(x) \/ IsInf(y)
       THEN (IF x.m = 0 \/ y.m = 0 THEN NaN ELSE Inf(Sgn(x.m) * Sgn(y.m)))
  ELSE Round(Sgn(x.m) * Sgn(y.m), Abs(x.m) * Abs(y.m), x.e + y.e, 0)

FMul(x, y) == Bind({ MulF(t[1], t[2]) : t \in { <<x, y>> } })

DivF(x, y) ==
  IF IsNaN(x) \/ IsNaN(y) THEN NaN
  ELSE IF IsInf(x) THEN (IF IsInf(y) THEN NaN
                         ELSE Inf(x.m * (IF y.m < 0 THEN -1 ELSE 1)))
  ELSE IF IsInf(y) THEN Zero
  ELSE IF y.m = 0 THEN (IF x.m = 0 THEN NaN ELSE Inf(Sgn(x.m)))
  ELSE IF x.m = 0 THEN Zero
  ELSE LET k == 2 * Prec + 2 - BitLen(Abs(x.m))
           n == Abs(x.m) * Pow2(k)
           q == n \div Abs(y.m)
           r == n % Abs(y.m)
       IN Round(Sgn(x.m) * Sgn(y.m), q, x.e - y.e - k, IF r = 0 THEN 0 ELSE 1)

FDiv(x, y) == Bind({ DivF(t[1], t[2]) : t \in { <<x, y>> } })

\* Rust's `as i32` on a float: truncation toward zero, saturating, NaN -> 0.
AsI32(x) ==
  IF IsNaN(x) THEN 0
  ELSE IF IsInf(x) THEN (IF x.m < 0 THEN I32_MIN ELSE I32_MAX)
  ELSE IF x.m = 0 THEN 0
  ELSE IF x.e >= 0
       THEN (IF BitLen(Abs(x.m)) + x.e > 31
             THEN (IF x.m < 0 THEN I32_MIN ELSE I32_MAX)
             ELSE x.m * Pow2(x.e))
  ELSE IF -x.e > 30 THEN 0
  ELSE Sgn(x.m) * (Abs(x.m) \div Pow2(-x.e))

ToI32(x) == Bind({ AsI32(t[1]) : t \in { <<x>> } })

(***************************************************************************)
(* The literals of the source and the input values of the model.           *)
(***************************************************************************)
F270 == FromInt(270)
F45 == FromInt(45)
F6 == FromInt(6)
F1 == FromInt(1)

MaxFinite == Fin(Pow2(Prec) - 1, MaxExp)
Big == FromInt(Pow2(Prec))

\* Ranges given to Gauge::new: the ranges of examples/simple.rs (0..=100,
\* 100..=200), narrow ranges, ranges at the magnitude where the spacing of
\* floats is 2, and the largest finite floats.
RangeValues ==
  { FNeg(MaxFinite), Zero, Flt(1, -1), F1, FromInt(5), F6, FromInt(100),
    FromInt(200), Big, FromInt(Pow2(Prec) + 2), FromInt(Pow2(Prec) + 16),
    MaxFinite }

Values == { FromInt(-1), Zero, FromInt(50), FromInt(100), FromInt(200) }
Sizes == { FromInt(200), Zero, FromInt(-1) }
Texts == { "", "hello" }

\* Arguments of the value-to-angle mapping when it is examined on its own.
AngleRangeValues ==
  { FNeg(MaxFinite), Zero, F1, FromInt(100), FromInt(200), Big,
    FromInt(Pow2(Prec) + 2), MaxFinite }
AngleValues ==
  AngleRangeValues \cup { FromInt(-1), Flt(1, -1), FromInt(2), FromInt(3),
                          FromInt(50), FromInt(150) }

(***************************************************************************)
(* Gauge::value_to_angle and Gauge::angle.                                 *)
(***************************************************************************)
\* The mapping without the `270.0 -` that turns it around.
value_to_angle_unflipped(v) ==
  ToI32(FSub(FMul(FDiv(FSub(v, min_value), FSub(max_value, min_value)),
                  F270),
             F45))

value_to_angle(v) ==
  ToI32(FSub(FSub(F270,
                  FMul(FDiv(FSub(v, min_value), FSub(max_value, min_value)),
                       F270)),
             F45))

angle == value_to_angle(value)

(***************************************************************************)
(* Shapes handed to the painter.  A path is the fan of points at the       *)
(* integer angles lo..=hi (none when lo > hi), followed by the center      *)
(* point when center is TRUE; a circle or a text sits at angle lo; v is    *)
(* the number a text shows and label its `as i32` form.                    *)
(***************************************************************************)
Shape(kind, op, lo, hi, center, v) ==
  [kind |-> kind, op |-> op, lo |-> lo, hi |-> hi, center |-> center,
   v |-> v, label |-> ToI32(v)]

background_circle_shape == Shape("path", "paint_background_circle", -45, 225, TRUE, Zero)
\* The wedge swept from the -45 end of the dial up to the angle.
colored_circle_from_end(a) == Shape("path", "paint_colored_circle", -45, a, TRUE, Zero)
colored_circle_shape(a) == Shape("path", "paint_colored_circle", a, 225, TRUE, Zero)
center_mask_shape == Shape("path", "paint_center_mask", -45, 225, FALSE, Zero)
skirt_mask_shape == Shape("quad", "paint_skirt_mask", -45, 225, FALSE, Zero)
end_cap_shapes ==
  << Shape("circle", "paint_end_caps", 225, 225, FALSE, Zero),
     Shape("circle", "paint_end_caps", -45, -45, FALSE, Zero) >>
value_circle_shape(a) == Shape("circle", "paint_value_circle", a, a, FALSE, Zero)
center_value_shape(v) == Shape("text", "write_center_value", 0, 0, FALSE, v)
tick_shape(v) ==
  Shape("text", "write_values_around_circle", value_to_angle(v),
        value_to_angle(v), FALSE, v)
text_shape == Shape("galley", "write_text", 0, 0, FALSE, Zero)

\* Number of arc points of a path (the center point not counted).
ArcPoints(s) == IF s.lo > s.hi THEN 0 ELSE s.hi - s.lo + 1

\* The painter's draw list; the model records its first MaxShapes entries.
Emit(list, s) == IF Len(list) < MaxShapes THEN Append(list, s) ELSE list

NoInfo == [slider |-> FALSE, value |-> Zero, label |-> ""]

(***************************************************************************)
(* Gauge::new followed by Widget::ui: one draw call.                       *)
(***************************************************************************)
Init ==
  /\ value \in Values
  /\ min_value \in RangeValues
  /\ max_value \in RangeValues
  /\ size \in Sizes
  /\ text = ""
  /\ pc = "new"
  /\ rect_visible = FALSE
  /\ allocated = << >>
  /\ widget_info = NoInfo
  /\ shapes = << >>
  /\ tick_value = Zero
  /\ returned = FALSE
  /\ calls = << >>

\* Gauge::text, the builder step between new and ui.
SetText(t) ==
  /\ pc = "new"
  /\ text' = t
  /\ pc' = "ui"
  /\ UNCHANGED <<value, min_value, max_value, size, rect_visible, allocated,
                 widget_info, shapes, tick_value, returned, calls>>

\* add_contents without the visibility test.
AddContents_always_paints ==
  /\ pc \in {"new", "ui"}
  /\ \E vis \in BOOLEAN :
       /\ rect_visible' = vis
       /\ pc' = "paint_background_circle"
  /\ allocated' = <<size, size>>
  /\ widget_info' = [slider |-> TRUE, value |-> value, label |-> text]
  /\ UNCHANGED <<gauge, shapes, tick_value, returned, calls>>

\* Widget::ui -> add_contents up to the visibility test; the host decides
\* whether the allotted rectangle is visible.
AddContents ==
  /\ pc \in {"new", "ui"}
  /\ \E vis \in BOOLEAN :
       /\ rect_visible' = vis
       /\ pc' = IF vis THEN "paint_background_circle" ELSE "return"
  /\ allocated' = <<size, size>>
  /\ widget_info' = [slider |-> TRUE, value |-> value, label |-> text]
  /\ UNCHANGED <<gauge, shapes, tick_value, returned, calls>>

PaintBackgroundCircle ==
  /\ pc = "paint_background_circle"
  /\ shapes' = Emit(shapes, background_circle_shape)
  /\ pc' = "paint_colored_circle"
  /\ UNCHANGED <<gauge, rect_visible, allocated, widget_info, tick_value,
                 returned, calls>>

PaintColoredCircle ==
  /\ pc = "paint_colored_circle"
  /\ shapes' = Emit(shapes, colored_circle_shape(angle))
  /\ pc' = "paint_center_mask"
  /\ UNCHANGED <<gauge, rect_visible, allocated, widget_info, tick_value,
                 returned, calls>>

PaintCenterMask ==
  /\ pc = "paint_center_mask"
  /\ shapes' = Emit(shapes, center_mask_shape)
  /\ pc' = "paint_skirt_mask"
  /\ UNCHANGED <<gauge, rect_visible, allocated, widget_info, tick_value,
                 returned, calls>>

PaintSkirtMask ==
  /\ pc = "paint_skirt_mask"
  /\ shapes' = Emit(shapes, skirt_mask_shape)
  /\ pc' = "paint_end_caps"
  /\ UNCHANGED <<gauge, rect_visible, allocated, widget_info, tick_value,
                 returned, calls>>

PaintEndCaps ==
  /\ pc = "paint_end_caps"
  /\ shapes' = Emit(Emit(shapes, end_cap_shapes[1]), end_cap_shapes[2])
  /\ pc' = "paint_value_circle"
  /\ UNCHANGED <<gauge, rect_visible, allocated, widget_info, tick_value,
                 returned, calls>>

PaintValueCircle ==
  /\ pc = "paint_value_circle"
  /\ shapes' = Emit(shapes, value_circle_shape(angle))
  /\ pc' = "write_center_value"
  /\ UNCHANGED <<gauge, rect_visible, allocated, widget_info, tick_value,
                 returned, calls>>

WriteCenterValue ==
  /\ pc = "write_center_value"
  /\ shapes' = Emit(shapes, center_value_shape(value))
  /\ pc' = "write_values_around_circle"
  /\ UNCHANGED <<gauge, rect_visible, allocated, widget_info, tick_value,
                 returned, calls>>

\* write_values_around_circle: `let mut value = self.min_value;`
WriteValuesAroundCircle ==
  /\ pc = "write_values_around_circle"
  /\ tick_value' = min_value
  /\ pc' = "tick_loop"
  /\ UNCHANGED <<gauge, rect_visible, allocated, widget_info, shapes,
                 returned, calls>>

\* The loop variable after `value += step` without the snap rule.
NextTick_no_snap(v) == FAdd(v, FDiv(FSub(max_value, min_value), F6))

\* The value of the loop variable after `value += step` and the snap rule.
NextTick(v) ==
  LET stepped == FAdd(v, FDiv(FSub(max_value, min_value), F6))
  IN IF FLt(FSub(max_value, stepped), F1) THEN max_value ELSE stepped

\* paint without the test of the caption.
AfterTicks_unconditional == "write_text"

\* Where paint continues after the loop: `if !self.text.is_empty()`.
AfterTicks == IF text # "" THEN "write_text" ELSE "return"

\* One iteration of the loop: the label is painted, then the loop either
\* breaks or advances.
TickLoop ==
  /\ pc = "tick_loop"
  /\ shapes' = Emit(shapes, tick_shape(tick_value))
  /\ IF FEq(tick_value, max_value)
       THEN /\ pc' = AfterTicks
            /\ tick_value' = tick_value
       ELSE /\ pc' = "tick_loop"
            /\ tick_value' = NextTick(tick_value)
  /\ UNCHANGED <<gauge, rect_visible, allocated, widget_info, returned, calls>>

WriteText ==
  /\ pc = "write_text"
  /\ shapes' = Emit(shapes, text_shape)
  /\ pc' = "return"
  /\ UNCHANGED <<gauge, rect_visible, allocated, widget_info, tick_value,
                 returned, calls>>

Return ==
  /\ pc = "return"
  /\ returned' = TRUE
  /\ pc' = "done"
  /\ UNCHANGED <<gauge, rect_visible, allocated, widget_info, shapes,
                 tick_value, calls>>

Next ==
  \/ \E t \in Texts : SetText(t)
  \/ AddContents
  \/ PaintBackgroundCircle
  \/ PaintColoredCircle
  \/ PaintCenterMask
  \/ PaintSkirtMask
  \/ PaintEndCaps
  \/ PaintValueCircle
  \/ WriteCenterValue
  \/ WriteValuesAroundCircle
  \/ TickLoop
  \/ WriteText
  \/ Return

Spec == Init /\ [][Next]_vars

\* The draw call runs on the UI thread without suspension points: every
\* enabled step is eventually taken.
FairSpec == Spec /\ WF_vars(Next)

(***************************************************************************)
(* The value-to-angle mapping on its own: gauges over one range are built  *)
(* with successive values (as the frames of examples/simple.rs do) and for *)
(* each the angle and the colored wedge are computed; the last two are     *)
(* kept.                                                                   *)
(***************************************************************************)
AngleInit ==
  /\ value = Zero
  /\ min_value \in AngleRangeValues
  /\ max_value \in AngleRangeValues
  /\ size = FromInt(200)
  /\ text = ""
  /\ pc = "angle"
  /\ rect_visible = FALSE
  /\ allocated = << >>
  /\ widget_info = NoInfo
  /\ shapes = << >>
  /\ tick_value = Zero
  /\ returned = FALSE
  /\ calls = << >>

LastTwo(list) == IF Len(list) > 2 THEN Tail(list) ELSE list

CallAngle(v) ==
  /\ pc = "angle"
  /\ value' = v
  /\ calls' = LastTwo(Append(calls,
                 [v |-> v,
                  angle |-> value_to_angle(v),
                  shape |-> colored_circle_shape(value_to_angle(v))]))
  /\ UNCHANGED <<min_value, max_value, size, text, pc, rect_visible,
                 allocated, widget_info, shapes, tick_value, returned>>

AngleNext == \E v \in AngleValues : CallAngle(v)

AngleSpec == AngleInit /\ [][AngleNext]_vars

(***************************************************************************)
(* Properties.                                                             *)
(***************************************************************************)
FiniteRange == IsFinite(min_value) /\ IsFinite(max_value)
ValidRange == FLt(min_value, max_value)

\* C1: for every finite range with min_value < max_value,
\* value_to_angle(min_value) is 225 and value_to_angle(max_value) is -45.
C1_EndpointAngles ==
  (FiniteRange /\ ValidRange) =>
    \A i \in DOMAIN calls :
      /\ FEq(calls[i].v, min_value) => calls[i].angle = 225
      /\ FEq(calls[i].v, max_value) => calls[i].angle = -45

\* Two successive calls with min_value < v1 < v2 < max_value.
InteriorPair ==
  /\ Len(calls) = 2
  /\ FLt(min_value, calls[1].v)
  /\ FLt(calls[1].v, calls[2].v)
  /\ FLt(calls[2].v, max_value)

\* C2 as stated: for min_value < v1 < v2 < max_value the integer angle of v1
\* is strictly greater than the integer angle of v2.
C2_StrictlyDecreasing ==
  InteriorPair => calls[1].angle > calls[2].angle

\* C2 as amended: for min_value < v1 < v2 < max_value the integer angle of
\* v1 is greater than or equal to the integer angle of v2 (the mapping never
\* increases; values closer than one degree may share an angle).
C2_NonIncreasing ==
  InteriorPair => calls[1].angle >= calls[2].angle

C2_Witness ==
  /\ InteriorPair
  /\ FiniteRange
  /\ calls[1].angle = calls[2].angle
  /\ calls[1].angle # 0

\* Two successive calls with min_value <= v1 < v2 <= max_value.
RangePair ==
  /\ Len(calls) = 2
  /\ FLe(min_value, calls[1].v)
  /\ FLt(calls[1].v, calls[2].v)
  /\ FLe(calls[2].v, max_value)

IsColoredWedge(c) ==
  /\ c.shape.op = "paint_colored_circle"
  /\ c.shape.lo = c.angle
  /\ c.shape.hi = 225
  /\ c.shape.center

\* C9 as stated: the colored arc is the wedge of the integer angles from
\* value_to_angle(value) to 225 plus the center, and for
\* min_value <= v1 < v2 <= max_value the wedge of v2 has no more arc points
\* than the wedge of v1.
C9_LessArcWithValue ==
  /\ \A i \in DOMAIN calls : IsColoredWedge(calls[i])
  /\ RangePair => ArcPoints(calls[2].shape) <= ArcPoints(calls[1].shape)

\* C9 as amended: the colored arc is the wedge of the integer angles from
\* value_to_angle(value) to 225 plus the center, and for
\* min_value <= v1 < v2 <= max_value the wedge of v2 has no fewer arc points
\* than the wedge of v1: the colored arc grows with the value.
C9_MoreArcWithValue ==
  /\ \A i \in DOMAIN calls : IsColoredWedge(calls[i])
  /\ RangePair => ArcPoints(calls[2].shape) >= ArcPoints(calls[1].shape)

C9_Witness ==
  /\ RangePair
  /\ FiniteRange
  /\ FEq(calls[1].v, min_value)
  /\ FEq(calls[2].v, max_value)
  /\ ArcPoints(calls[1].shape) = 1
  /\ ArcPoints(calls[2].shape) = 271

IsTick(s) == s.op = "write_values_around_circle"
Ticks == SelectSeq(shapes, IsTick)
LoopExited == rect_visible /\ pc \in {"write_text", "return", "done"}

RECURSIVE CountEq(_, _)
CountEq(list, x) ==
  IF list = << >> THEN 0
  ELSE (IF FEq(Head(list).v, x) THEN 1 ELSE 0) + CountEq(Tail(list), x)

\* C3: the tick-label loop always terminates: once entered, it reaches its
\* break for every input range.
C3_TickLoopTerminates == (pc = "tick_loop") ~> (pc # "tick_loop")

\* C4: for every range with min_value < max_value the emitted ticks contain
\* min_value exactly once, as the first tick, and max_value exactly once, as
\* the last tick.
C4_EndpointsOnce ==
  ValidRange =>
    /\ CountEq(Ticks, min_value) <= 1
    /\ CountEq(Ticks, max_value) <= 1
    /\ Ticks # << >> => FEq(Ticks[1].v, min_value)
    /\ LoopExited =>
         /\ CountEq(Ticks, min_value) = 1
         /\ CountEq(Ticks, max_value) = 1
         /\ FEq(Ticks[Len(Ticks)].v, max_value)

\* The k-th of seven evenly spaced ticks.
EvenTick(k) ==
  IF k = 6 THEN max_value
  ELSE FAdd(min_value,
            FMul(FromInt(k), FDiv(FSub(max_value, min_value), F6)))

\* C5: for every range with min_value < max_value exactly seven tick labels
\* are emitted, at min_value + k * (max_value - min_value) / 6 for k = 0..6.
C5_SevenEvenTicks ==
  (ValidRange /\ LoopExited) =>
    /\ Len(Ticks) = 7
    /\ \A k \in 0..6 : FEq(Ticks[k + 1].v, EvenTick(k))

PaintOrder ==
  << "paint_background_circle", "paint_colored_circle", "paint_center_mask",
     "paint_skirt_mask", "paint_end_caps", "paint_end_caps",
     "paint_value_circle", "write_center_value" >>

\* C7: on every visible draw the paint operations are emitted in the order
\* background arc, colored arc, center mask, skirt mask, 225-degree cap,
\* -45-degree cap, value indicator, center value text, tick labels, caption
\* text; the caption text is emitted if and only if the caption is
\* non-empty.
C7_PaintOrder ==
  /\ \A i \in DOMAIN shapes :
       /\ i <= 8 => shapes[i].op = PaintOrder[i]
       /\ i = 5 => shapes[i].lo = 225
       /\ i = 6 => shapes[i].lo = -45
       /\ i > 8 =>
            \/ IsTick(shapes[i])
            \/ /\ shapes[i].op = "write_text"
               /\ i = Len(shapes)
               /\ IsTick(shapes[i - 1])
               /\ text # ""
  /\ (rect_visible /\ pc \in {"return", "done"}) =>
       /\ Len(shapes) >= 9
       /\ Len(shapes) < MaxShapes
       /\ IsTick(shapes[9])
       /\ text # "" <=> shapes[Len(shapes)].op = "write_text"

C7_Witness ==
  /\ pc = "done"
  /\ rect_visible
  /\ text # ""
  /\ Len(shapes) = 16
  /\ shapes[16].op = "write_text"
  /\ shapes[1].op = "paint_background_circle"

\* An input the data model calls degenerate.
Degenerate ==
  \/ FEq(min_value, max_value)
  \/ FLt(max_value, min_value)
  \/ FLt(value, min_value)
  \/ FLt(max_value, value)
  \/ FLe(size, Zero)

\* C8: for degenerate inputs (min_value = max_value, reversed range, value
\* outside the range, zero or negative size) the draw call does not fail:
\* the tick loop finishes and the call returns its response.
C8_DegenerateDrawReturns ==
  (Degenerate /\ pc \in {"new", "ui"}) ~> (pc = "done" /\ returned)

\* A tick that is not the final max_value tick.
BeforeFinal(i) == ~FEq(Ticks[i].v, max_value)
OutsideSnap(v) == ~FLt(FSub(max_value, v), F1)

\* C10 as stated: for every range with min_value < max_value every tick
\* emitted before the final max_value tick is at least 1.0 below max_value.
C10_TicksBelowMax ==
  ValidRange =>
    \A i \in DOMAIN Ticks : BeforeFinal(i) => OutsideSnap(Ticks[i].v)

\* C10 as amended: for every finite range with min_value < max_value every
\* tick emitted after the first tick (min_value itself) and before the final
\* max_value tick is at least 1.0 below max_value, the difference
\* max_value - tick taken as the code computes it.
C10_LaterTicksBelowMax ==
  (FiniteRange /\ ValidRange) =>
    \A i \in DOMAIN Ticks :
      (i > 1 /\ BeforeFinal(i)) => OutsideSnap(Ticks[i].v)

C10_Witness ==
  /\ ValidRange
  /\ LoopExited
  /\ Len(Ticks) = 7
  /\ FLt(FSub(max_value, Ticks[6].v), FromInt(20))

====
